---- MODULE Spec2Model ----
(***************************************************************************)
(* The optimistic synchronization engine of Focus-Flow: the hooks          *)
(* useTimeBlocks (schedule items) and useTaskPool (pool tasks, two         *)
(* versions), together with the retry utility of lib/retry.ts.             *)
(*                                                                         *)
(* An entity is a record [id, key].  `key` is the sort key: the (date,      *)
(* startTime) pair of a time block, compared lexicographically by the      *)
(* source and encoded here as one integer, or the position of a pool task. *)
(* It is also the one field of an entity the model follows: a patch either *)
(* sets it or touches the other fields only.  Server identifiers are       *)
(* positive integers, the temporary identifier `temp-${Date.now()}` is the *)
(* negated clock value.                                                    *)
(*                                                                         *)
(* Specifications, all over the same variables:                            *)
(*   Spec          the hooks, syncState and `await retry(...)` as one step *)
(*   SpecReorder   Spec with reorderTasks                                  *)
(*   SpecOwner     Spec with the owner signing out                         *)
(*   SpecAllFail   after the load, every persistence call failing          *)
(*   SpecQueued    the hooks under React's update queue                    *)
(*   SpecRetry     one run of retry()                                      *)
(*   SpecClassify  isRetryableError on one error value                     *)
(*   SpecAttempts  the hooks with each invocation inside retry() a step    *)
(*   SpecRecurrence  generateRecurringDates and getNextOccurrence          *)
(*   SpecQueuedReorder  the pool hooks' reorderTasks under the queue       *)
(*   SpecLoad      the initial load with the loop of retry() as steps      *)
(*   SpecSchedule  TodayView's scheduleTask over both hooks                *)
(***************************************************************************)
EXTENDS Integers, Sequences, FiniteSets, TLC

VARIABLES
    variant,        \* which hook this run models
    timeBlocks,     \* the React state (UI-visible LocalState)
    timeBlocksRef,  \* timeBlocksRef.current / tasksRef.current
    loading,        \* the loading flag
    fetch,          \* the initial load: "pending" or "done"
    calls,          \* the mutation calls, by call number
    ncalls,         \* number of mutation calls issued so far
    nevents,        \* number of change events delivered so far
    now,            \* the last value Date.now() returned
    everSeen,       \* server identifiers that exist or existed at the server
    ev,             \* the step just taken (history)
    rt,             \* one run of retry()
    user,           \* useAuth().user: the owner's identifier, 0 when signed out
    staleFetch,     \* owners of loads still in flight from earlier effect runs
    pending,        \* React's queue of state updates not yet rendered
    origin,         \* LocalState before the first mutation call (history)
    nextPositionMemo, \* useMemo of nextPosition: the value and its dependency
    gen,            \* one call of generateRecurringDates or getNextOccurrence
    channels,       \* the change-stream channels the effect has open
    schedule        \* one call of TodayView's scheduleTask, and the pool it reads

vars == <<variant, timeBlocks, timeBlocksRef, loading, fetch, calls, ncalls,
          nevents, now, everSeen, ev, rt, user, staleFetch, pending, origin,
          nextPositionMemo, gen, channels, schedule>>

engineVars == <<variant, timeBlocks, timeBlocksRef, loading, fetch, calls,
                ncalls, nevents, now, everSeen, ev, user, staleFetch, pending,
                origin, nextPositionMemo, gen, channels, schedule>>

\* what the steps of the mutation coordinator and of the listener leave alone
sessionVars == <<variant, user, staleFetch, pending, origin, gen, channels,
                 schedule>>

\* what a step that makes no synchronization call leaves alone
listVars == <<timeBlocks, timeBlocksRef, nextPositionMemo>>

(***************************************************************************)
(* Bounds                                                                  *)
(***************************************************************************)
NumIds == 2
MaxKey == 2
MaxCalls == 2
MaxEvents == 1
MaxNow == 2
MaxLoaded == 2
MaxRetriesBound == 3
NumUsers == 1
MaxPending == 1
MaxReorder == 2

Variants == {"timeBlocks", "taskPool", "taskPool2"}
ServerIds == 1..NumIds
Keys == 1..MaxKey

(***************************************************************************)
(* Entities and sequences                                                  *)
(***************************************************************************)
Entity(i, k) == [id |-> i, key |-> k]
NoEntity == Entity(0, 0)
Rows == {Entity(i, k) : i \in ServerIds, k \in Keys}

Ids(s) == {s[i].id : i \in 1..Len(s)}
Count(s, i) == Cardinality({n \in 1..Len(s) : s[n].id = i})
NoDuplicates(s) == \A i, j \in 1..Len(s) : s[i].id = s[j].id => i = j
Sorted(s) == \A i, j \in 1..Len(s) : i < j => s[i].key <= s[j].key

\* current.some(block => block.id === i)
Some(s, i) == \E n \in 1..Len(s) : s[n].id = i

\* ref.current.find(block => block.id === i): the first match, or undefined
Find(s, i) ==
    IF Some(s, i)
    THEN s[CHOOSE n \in 1..Len(s) :
              s[n].id = i /\ \A m \in 1..(n - 1) : s[m].id # i]
    ELSE NoEntity

\* Array.prototype.sort with a comparator on the sort key: a stable sort
RECURSIVE InsertByKey(_, _)
InsertByKey(s, e) ==
    IF s = <<>> THEN <<e>>
    ELSE IF Head(s).key <= e.key THEN <<Head(s)>> \o InsertByKey(Tail(s), e)
    ELSE <<e>> \o s

RECURSIVE SortByKey(_)
SortByKey(s) ==
    IF s = <<>> THEN <<>>
    ELSE InsertByKey(SortByKey(SubSeq(s, 1, Len(s) - 1)), s[Len(s)])

(***************************************************************************)
(* Dates.  A date string 'YYYY-MM-DD' is a record [y, m, d]; the missing    *)
(* string (undefined, null) is NoDate.  A Date object is a count of days:   *)
(* the time value of a date-only string in days since 1970-01-01, read and  *)
(* written in a time zone without offset.                                   *)
(***************************************************************************)
DateString(y, m, d) == [y |-> y, m |-> m, d |-> d]
NoDate == DateString(0, 0, 0)

\* the day number of a civil date (month 1..12)
DayFromCivil(y, m, d) ==
    LET yy == IF m <= 2 THEN y - 1 ELSE y
        era == yy \div 400
        yoe == yy - era * 400
        mp == IF m > 2 THEN m - 3 ELSE m + 9
        doy == (153 * mp + 2) \div 5 + d - 1
        doe == yoe * 365 + yoe \div 4 - yoe \div 100 + doy
    IN  era * 146097 + doe - 719468

\* the civil date of a day number
CivilFromDay(z) ==
    LET zz == z + 719468
        era == zz \div 146097
        doe == zz - era * 146097
        yoe == (doe - doe \div 1460 + doe \div 36524 - doe \div 146096) \div 365
        doy == doe - (365 * yoe + yoe \div 4 - yoe \div 100)
        mp == (5 * doy + 2) \div 153
        d == doy - (153 * mp + 2) \div 5 + 1
        m == IF mp < 10 THEN mp + 3 ELSE mp - 9
        y == yoe + era * 400 + (IF m <= 2 THEN 1 ELSE 0)
    IN  DateString(y, m, d)

\* new Date('YYYY-MM-DD')
NewDate(str) == DayFromCivil(str.y, str.m, str.d)

\* MakeDay of the language: month is 0-based and may exceed 11, date may
\* exceed the length of the month; both carry over
MakeDay(year, month, date) ==
    DayFromCivil(year + month \div 12, (month % 12) + 1, 1) + date - 1

getFullYear(t) == CivilFromDay(t).y
getMonth(t) == CivilFromDay(t).m - 1
getDate(t) == CivilFromDay(t).d
\* t.setDate(date), t.setMonth(month)
setDate(t, date) == MakeDay(getFullYear(t), getMonth(t), date)
setMonth(t, month) == MakeDay(getFullYear(t), month, getDate(t))

\* formatDate of utils/dateUtils: the 'YYYY-MM-DD' string of a Date
formatDate(t) == CivilFromDay(t)

(***************************************************************************)
(* lib/retry.ts                                                            *)
(***************************************************************************)
Err(c, m, s) == [code |-> c, message |-> m, status |-> s]
NoError == Err("", "", 0)
\* message?.includes('network'), message?.includes('timeout')
IncludesNetwork(m) == m \in {"network down"}
IncludesTimeout(m) == m \in {"timeout exceeded"}

\* mutant: the server-error range starts after 500
isRetryableErrorShifted(error) ==
    \/ error.code = "NETWORK_ERROR" \/ IncludesNetwork(error.message)
    \/ error.code = "TIMEOUT" \/ IncludesTimeout(error.message)
    \/ (error.status > 500 /\ error.status < 600)
    \/ error.status = 429

isRetryableError(error) ==
    \/ error.code = "NETWORK_ERROR" \/ IncludesNetwork(error.message)
    \/ error.code = "TIMEOUT" \/ IncludesTimeout(error.message)
    \/ (error.status >= 500 /\ error.status < 600)
    \/ error.status = 429

RetryOptions(n, d, b, c) ==
    [maxRetries |-> n, delay |-> d, backoff |-> b, retryCondition |-> c]

\* opts.retryCondition(error); the default condition is () => true
retryCondition(opts, error) ==
    IF opts.retryCondition = "isRetryableError" THEN isRetryableError(error)
    ELSE TRUE

RECURSIVE Pow2(_)
Pow2(n) == IF n <= 0 THEN 1 ELSE 2 * Pow2(n - 1)

\* mutant: the exponent runs one ahead, the linear factor one behind
BackoffDelayShifted(opts, attempt) ==
    IF opts.backoff = "exponential" THEN opts.delay * Pow2(attempt + 1)
    ELSE opts.delay * attempt

\* the delay computed after failed attempt `attempt`
BackoffDelay(opts, attempt) ==
    IF opts.backoff = "exponential" THEN opts.delay * Pow2(attempt)
    ELSE opts.delay * (attempt + 1)

\* mutant: the last attempt is taken to be the one before maxRetries
RetryCatchOffByOne(opts, attempt, error) ==
    IF ~retryCondition(opts, error) THEN "throw"
    ELSE IF attempt + 1 >= opts.maxRetries THEN "break"
    ELSE "wait"

\* mutant: the retry condition is consulted after the first attempt only
RetryCatchFirstOnly(opts, attempt, error) ==
    IF attempt = 0 /\ ~retryCondition(opts, error) THEN "throw"
    ELSE IF attempt = opts.maxRetries THEN "break"
    ELSE "wait"

\* mutant: a retryable error ends retry() like a permanent one
RetryCatchGivesUp(opts, attempt, error) ==
    IF ~retryCondition(opts, error) THEN "throw" ELSE "break"

\* the catch block of retry's loop: rethrow, leave the loop, or wait
RetryCatch(opts, attempt, error) ==
    IF ~retryCondition(opts, error) THEN "throw"
    ELSE IF attempt = opts.maxRetries THEN "break"
    ELSE "wait"

FetchOptions == RetryOptions(3, 1000, "exponential", "isRetryableError")
WriteOptions == RetryOptions(2, 500, "exponential", "isRetryableError")

\* The errors `await retry(...)` can reject with in a hook: a permanent one
\* (rethrown at once) and a transient one (rethrown when the retries are used
\* up).  The hooks run between the call of retry() and its settlement only in
\* other calls' steps, so a hook's await is one step here; the loop inside
\* retry() is the specification SpecRetry.
EngineErrors == {Err("", "", 503), Err("", "", 400)}

(***************************************************************************)
(* The hooks: state transforms                                             *)
(***************************************************************************)
\* the row -> entity mapping copies the modelled fields
mapRowToTimeBlock(row) == Entity(row.id, row.key)

\* A patch: key 0 stands for a patch of the other fields (such as the
\* { completed } of handleToggleTask), which leaves the sort key alone.
NoPatch == [key |-> 0]
Patches == {[key |-> k] : k \in 0..MaxKey}
\* { ...previous, ...updates }: a field the patch defines wins
ApplyUpdates(e, updates) ==
    Entity(e.id, IF updates.key # 0 THEN updates.key ELSE e.key)

\* mutant: every entity is replaced, whatever its identifier
ReplaceEvery(s, i, e) == [n \in 1..Len(s) |-> e]

\* mutant: an identifier that is not there is added
ReplaceOrAppend(s, i, e) ==
    IF Some(s, i) THEN [n \in 1..Len(s) |-> IF s[n].id = i THEN e ELSE s[n]]
    ELSE Append(s, e)

\* prev.map(block => (block.id === i ? e : block))
Replace(s, i, e) == [n \in 1..Len(s) |-> IF s[n].id = i THEN e ELSE s[n]]

\* prev.filter(block => block.id !== i)
Remove(s, i) == LET Keep(b) == b.id # i IN SelectSeq(s, Keep)

\* the first version of useTaskPool merges an INSERT without looking for the id
DedupsInsert(v) == v # "taskPool"

\* the second version of useTaskPool catches and does not rethrow
Rethrows(v) == v # "taskPool2"

\* Change events of the subscription.  The old record of a DELETE carries the
\* primary key only.
OldRow(i) == Entity(i, 0)
Payloads ==
    {[eventType |-> t, row |-> r] : t \in {"INSERT", "UPDATE"}, r \in Rows}
        \cup {[eventType |-> "DELETE", row |-> OldRow(i)] : i \in ServerIds}

handleRealtimeChange(v, current, payload) ==
    CASE payload.eventType = "INSERT" ->
            LET inserted == mapRowToTimeBlock(payload.row) IN
            IF DedupsInsert(v) /\ Some(current, inserted.id) THEN current
            ELSE SortByKey(Append(current, inserted))
      [] payload.eventType = "UPDATE" ->
            LET updated == mapRowToTimeBlock(payload.row) IN
            SortByKey(Replace(current, updated.id, updated))
      [] payload.eventType = "DELETE" -> Remove(current, payload.row.id)
      [] OTHER -> current

\* nextPosition of the second useTaskPool: the body of the useMemo
nextPosition(ref) ==
    IF Len(ref) = 0 THEN 1
    ELSE (CHOOSE m \in {ref[n].key : n \in 1..Len(ref)} :
              \A n \in 1..Len(ref) : ref[n].key <= m) + 1

\* useMemo(..., [tasksRef.current.length]): at a render the body runs again
\* only when the length of the ref differs from the length it ran with.  The
\* first render runs it with the empty ref.
Memo(l, v) == [length |-> l, value |-> v]
FirstMemo == Memo(0, nextPosition(<<>>))
HasMemo(v) == v = "taskPool2"
Remember(v, memo, ref) ==
    IF HasMemo(v) /\ Len(ref) # memo.length
    THEN Memo(Len(ref), nextPosition(ref))
    ELSE memo

\* `temp-${Date.now()}`
TemporaryId(t) == 0 - t
IsTemporary(i) == i < 0

\* the lists a load can return: rows ordered by the sort key, one per id
RECURSIVE SeqsUpTo(_, _)
SeqsUpTo(S, n) ==
    IF n = 0 THEN {<<>>}
    ELSE LET shorter == SeqsUpTo(S, n - 1) IN
         shorter \cup {Append(s, x) : s \in shorter, x \in S}
LoadedLists == {s \in SeqsUpTo(Rows, MaxLoaded) : NoDuplicates(s) /\ Sorted(s)}

(***************************************************************************)
(* Mutation calls.  A call record holds what the async function keeps in   *)
(* its closure (id, block, updates, previous, previousList, and for a      *)
(* reorder the identifiers of its argument in order, ordered, and the      *)
(* number of position writes it issues, writes), the                       *)
(* identifier the server gives the inserted row (srvId), and history:      *)
(* quiet (no other step changed LocalState since the call was made), pre   *)
(* (LocalState when the call was made, kept while the call is quiet),      *)
(* loaded (the initial load had settled by then) and merged (identifiers   *)
(* inserted by change events since).  owner is the user.id the closure     *)
(* holds, attempt the `attempt` of the retry() loop the call awaits, and     *)
(* wrote (history) the server's entity that the success of another update   *)
(* of the same identifier has written since the call was made.              *)
(***************************************************************************)
IdleCall ==
    [op |-> "idle", id |-> 0, block |-> NoEntity, updates |-> NoPatch,
     previous |-> NoEntity, previousList |-> <<>>, srvId |-> 0,
     pre |-> <<>>, loaded |-> FALSE, quiet |-> TRUE, merged |-> {},
     owner |-> 0, attempt |-> 0, wrote |-> NoEntity, ordered |-> <<>>,
     writes |-> 0]

CallIds == 1..MaxCalls
InFlight(c) == calls[c].op # "idle"

\* How the step just taken ended a mutation call, if it did: the kind of the
\* ending, whether the async function rejected (the error is rethrown to the
\* caller), the error the persistence call ended with, the number of
\* toast.error notifications the step emitted, the server's entity that
\* the step replaced with a call's captured `previous` (NoEntity if none),
\* and for a load that succeeded the list the query returned.
Event(k, thrown, error, toasts) ==
    [kind |-> k, thrown |-> thrown, error |-> error, toasts |-> toasts,
     over |-> NoEntity, list |-> <<>>]
Other == Event("other", FALSE, NoError, 0)

IdleRetry ==
    [status |-> "idle", opts |-> RetryOptions(0, 0, "linear", "default"),
     attempt |-> 0, invocations |-> 0, waits |-> <<>>, failed |-> <<>>,
     lastError |-> NoError, thrownError |-> NoError, resolved |-> <<>>,
     result |-> ""]

\* no call of the recurrence utilities
IdleGen ==
    [fn |-> "idle", startDate |-> NoDate, recurrence |-> "none",
     endDate |-> NoDate, count |-> 0, dates |-> <<>>, current |-> 0,
     iterations |-> 0, status |-> "idle", next |-> NoDate]

\* no call of TodayView's scheduleTask, and an empty pool
IdleSchedule ==
    [pc |-> "idle", task |-> NoEntity, call |-> 0, pool |-> <<>>,
     previous |-> <<>>, deletes |-> 0, create |-> "none"]

\* supabase.channel(name).on('postgres_changes', { ..., filter:
\* `user_id=eq.${user.id}` }, handler).subscribe(): the channel delivers the
\* change events of the rows of that owner.  The first useTaskPool puts the
\* owner in the name of the channel as well.
Channel(v, u) == [name |-> IF v = "taskPool" THEN u ELSE 0, filter |-> u]

\* mutant: the cleanup leaves the channel open
removeChannelKeeps(open, channel) == open

\* the cleanup of the effect: supabase.removeChannel(channel)
removeChannel(open, channel) == open \ {channel}

\* `user` changes from `previous` to `u`: the cleanup of the last run of the
\* effect, if that run had subscribed, then the effect again, which returns
\* before it subscribes when there is no user
Resubscribe(v, open, previous, u) ==
    LET closed == IF previous = 0 THEN open
                  ELSE removeChannel(open, Channel(v, previous))
    IN  IF u = 0 THEN closed ELSE closed \cup {Channel(v, u)}

HookInit ==
    /\ variant \in Variants
    /\ timeBlocks = <<>>
    /\ timeBlocksRef = <<>>
    /\ loading = TRUE
    /\ fetch = "pending"
    /\ calls = [c \in CallIds |-> IdleCall]
    /\ ncalls = 0
    /\ nevents = 0
    /\ now = 1
    /\ everSeen = {}
    /\ ev = Other
    /\ user = 1
    /\ staleFetch = {}
    /\ pending = <<>>
    /\ origin = <<>>
    /\ nextPositionMemo = FirstMemo
    /\ channels = Resubscribe(variant, {}, 0, 1)

\* no drag of a pool task onto the day
EngineInit == HookInit /\ schedule = IdleSchedule

Init == EngineInit /\ rt = IdleRetry /\ gen = IdleGen

\* syncState(updater): the state and the ref are set to updater(prev); the
\* component renders with the new state
syncState(next) ==
    /\ timeBlocks' = next
    /\ timeBlocksRef' = next
    /\ nextPositionMemo' = Remember(variant, nextPositionMemo, next)

\* history: the calls in flight other than `self` see LocalState change
Disturb(base, self, next) ==
    [c \in CallIds |->
        IF c # self /\ base[c].op # "idle" /\ next # timeBlocks
        THEN [base[c] EXCEPT !.quiet = FALSE, !.pre = <<>>]
        ELSE base[c]]

Forget(base, i) ==
    [c \in CallIds |-> [base[c] EXCEPT !.merged = @ \ {i}]]

(***************************************************************************)
(* fetchTimeBlocks / fetchTasks                                            *)
(***************************************************************************)
\* mutant: the rows of the load are added to what LocalState holds
setLoadedMerging(current, formatted) == current \o formatted

\* setTimeBlocks(formatted) / syncState(() => formatted): the new state does
\* not depend on the current one
setLoaded(current, formatted) == formatted

FetchSuccess ==
    /\ fetch = "pending"
    /\ \E formatted \in LoadedLists :
        LET next == setLoaded(timeBlocks, formatted)
        IN  /\ syncState(next)
            /\ everSeen' = everSeen \cup Ids(formatted)
            /\ calls' = [c \in CallIds |->
                            [Disturb(calls, 0, next)[c] EXCEPT !.merged = {}]]
            /\ ev' = [Event("fetchOk", FALSE, NoError, 0)
                         EXCEPT !.list = formatted]
    /\ loading' = FALSE
    /\ fetch' = "done"
    /\ UNCHANGED <<sessionVars, ncalls, nevents, now, rt>>

\* mutant: the load that fails leaves the loading flag up
FetchFailureKeepsLoading ==
    /\ fetch = "pending"
    /\ \E error \in EngineErrors :
        /\ ev' = Other
    /\ fetch' = "done"
    /\ UNCHANGED <<sessionVars, listVars, loading, calls, ncalls, nevents,
                   now, everSeen, rt>>

\* catch (no rethrow) and finally: setLoading(false)
FetchFailure ==
    /\ fetch = "pending"
    /\ \E error \in EngineErrors :
        /\ ev' = Other
    /\ loading' = FALSE
    /\ fetch' = "done"
    /\ UNCHANGED <<sessionVars, listVars, calls, ncalls, nevents,
                   now, everSeen, rt>>

(***************************************************************************)
(* The change-stream listener                                              *)
(***************************************************************************)
RealtimeChange ==
    /\ channels # {}
    /\ nevents < MaxEvents
    /\ \E payload \in Payloads :
        LET next == handleRealtimeChange(variant, timeBlocks, payload)
            i == payload.row.id
            seen == Disturb(calls, 0, next)
        IN  /\ syncState(next)
            /\ calls' =
                 [c \in CallIds |->
                    IF ~InFlight(c) THEN seen[c]
                    ELSE IF payload.eventType = "INSERT"
                         THEN [seen[c] EXCEPT !.merged = @ \cup {i}]
                    ELSE IF payload.eventType = "DELETE"
                         THEN [seen[c] EXCEPT !.merged = @ \ {i}]
                    ELSE seen[c]]
            /\ everSeen' = everSeen \cup {i}
            /\ ev' = Other
    /\ nevents' = nevents + 1
    /\ UNCHANGED <<sessionVars, loading, fetch, ncalls, now, rt>>

(***************************************************************************)
(* addTimeBlock / addTask                                                  *)
(***************************************************************************)
\* the drafts a caller can pass; the second useTaskPool takes the position
\* from the nextPosition of the last render
Drafts(v) ==
    IF v = "taskPool2"
    THEN {Entity(0, nextPositionMemo.value)}
    ELSE {Entity(0, k) : k \in Keys}

\* user.id in the closure of the async function scopes its persistence call
NewCall(c, rec) ==
    [rec EXCEPT !.pre = timeBlocks, !.loaded = (fetch = "done"),
                !.owner = user]

AddTimeBlock ==
    /\ user # 0
    /\ ncalls < MaxCalls
    /\ \E block \in Drafts(variant), s \in ServerIds \ everSeen,
          t \in {now, now + 1} :
        LET c == ncalls + 1
            temporaryId == TemporaryId(t)
            optimisticBlock == [block EXCEPT !.id = temporaryId]
            next == Append(timeBlocks, optimisticBlock)
            rec == NewCall(c, [IdleCall EXCEPT !.op = "add",
                                               !.id = temporaryId,
                                               !.block = block,
                                               !.srvId = s])
        IN  /\ block.key <= MaxKey + 1
            /\ t <= MaxNow
            /\ now' = t
            /\ syncState(next)
            /\ calls' = Disturb([calls EXCEPT ![c] = rec], c, next)
            /\ everSeen' = everSeen \cup {s}
            /\ ev' = Other
    /\ ncalls' = ncalls + 1
    /\ UNCHANGED <<sessionVars, loading, fetch, nevents, rt>>

Settle(c, next) == Disturb([calls EXCEPT ![c] = IdleCall], c, next)

\* history: the success of update c has written the server's entity, which
\* the other updates of that identifier still in flight will find there
Wrote(base, c, updated) ==
    [d \in CallIds |->
        IF d # c /\ base[d].op = "update" /\ base[d].id = calls[c].id
        THEN [base[d] EXCEPT !.wrote = updated]
        ELSE base[d]]

\* The callers of a mutation in the views.  TodayView wires useTimeBlocks and
\* the first useTaskPool: its handlers await or `void` the call and catch
\* nothing ("view"), except scheduleTask, which awaits addTimeBlock and then
\* deleteTask inside a try block whose catch emits a toast.error of its own.
Callers(v, op) ==
    IF (v = "timeBlocks" /\ op = "add") \/ (v = "taskPool" /\ op = "delete")
    THEN {"view", "scheduleTask"}
    ELSE {"view"}

\* the notifications the caller adds when the call rejects
CallerToasts(caller, thrown) ==
    IF caller = "scheduleTask" /\ thrown THEN 1 ELSE 0

AddSuccess ==
    /\ \E c \in CallIds :
        /\ calls[c].op = "add"
        /\ LET row == Entity(calls[c].srvId, calls[c].block.key)
               inserted == mapRowToTimeBlock(row)
               next == Replace(timeBlocks, calls[c].id, inserted)
           IN  /\ syncState(next)
               /\ calls' = Settle(c, next)
               /\ ev' = Event("addOk", FALSE, NoError, 0)
    /\ UNCHANGED <<sessionVars, loading, fetch, ncalls, nevents, now, everSeen, rt>>

AddFailure ==
    /\ \E c \in CallIds, error \in EngineErrors,
          caller \in Callers(variant, "add") :
        /\ calls[c].op = "add"
        /\ LET next == Remove(timeBlocks, calls[c].id)
           IN  /\ syncState(next)
               /\ calls' = Settle(c, next)
               /\ ev' = Event("addFail", Rethrows(variant), error,
                              1 + CallerToasts(caller, Rethrows(variant)))
    /\ UNCHANGED <<sessionVars, loading, fetch, ncalls, nevents, now, everSeen, rt>>

(***************************************************************************)
(* updateTimeBlock / updateTask                                            *)
(***************************************************************************)
\* the identifiers a caller can name: those on screen and the server's
Targets == Ids(timeBlocksRef) \cup ServerIds

UpdateTimeBlock ==
    /\ user # 0
    /\ ncalls < MaxCalls
    /\ \E id \in Targets, updates \in Patches :
        LET c == ncalls + 1
            previous == Find(timeBlocksRef, id)
            optimistic == ApplyUpdates(previous, updates)
            next == Replace(timeBlocks, id, optimistic)
            rec == NewCall(c, [IdleCall EXCEPT !.op = "update",
                                               !.id = id,
                                               !.updates = updates,
                                               !.previous = previous])
        IN  /\ previous # NoEntity
            /\ syncState(next)
            /\ calls' = Disturb([calls EXCEPT ![c] = rec], c, next)
            /\ ev' = Other
    /\ ncalls' = ncalls + 1
    /\ UNCHANGED <<sessionVars, loading, fetch, nevents, now, everSeen, rt>>

\* `if (!previous) return`
UpdateMissing ==
    /\ user # 0
    /\ \E id \in Targets :
        /\ Find(timeBlocksRef, id) = NoEntity
        /\ ev' = Event("updateNoop", FALSE, NoError, 0)
    /\ UNCHANGED <<sessionVars, listVars, loading, fetch, calls,
                   ncalls, nevents, now, everSeen, rt>>

UpdateSuccess ==
    /\ \E c \in CallIds, base \in Rows :
        /\ calls[c].op = "update"
        /\ base.id = calls[c].id
        /\ LET updated == mapRowToTimeBlock(ApplyUpdates(base, calls[c].updates))
               next == Replace(timeBlocks, calls[c].id, updated)
           IN  /\ syncState(next)
               /\ calls' = Wrote(Settle(c, next), c, updated)
               /\ ev' = Event("updateOk", FALSE, NoError, 0)
    /\ UNCHANGED <<sessionVars, loading, fetch, ncalls, nevents, now, everSeen, rt>>

\* history: the server's entity that the rollback of call c replaces
Overwritten(c) ==
    IF /\ calls[c].wrote # NoEntity
       /\ calls[c].wrote # calls[c].previous
       /\ Find(timeBlocks, calls[c].id) = calls[c].wrote
    THEN calls[c].wrote
    ELSE NoEntity

\* mutant: the rollback leaves alone an entity that is no longer the
\* optimistic one
UpdateFailureGuarded ==
    /\ \E c \in CallIds, error \in EngineErrors,
          caller \in Callers(variant, "update") :
        /\ calls[c].op = "update"
        /\ LET optimistic == ApplyUpdates(calls[c].previous, calls[c].updates)
               next == [n \in 1..Len(timeBlocks) |->
                           IF timeBlocks[n] = optimistic
                           THEN calls[c].previous ELSE timeBlocks[n]]
           IN  /\ syncState(next)
               /\ calls' = Settle(c, next)
               /\ ev' = [Event("updateFail", Rethrows(variant), error,
                               1 + CallerToasts(caller, Rethrows(variant)))
                            EXCEPT !.over = Overwritten(c)]
    /\ UNCHANGED <<sessionVars, loading, fetch, ncalls, nevents, now, everSeen, rt>>

UpdateFailure ==
    /\ \E c \in CallIds, error \in EngineErrors,
          caller \in Callers(variant, "update") :
        /\ calls[c].op = "update"
        /\ LET next == Replace(timeBlocks, calls[c].id, calls[c].previous)
           IN  /\ syncState(next)
               /\ calls' = Settle(c, next)
               /\ ev' = [Event("updateFail", Rethrows(variant), error,
                               1 + CallerToasts(caller, Rethrows(variant)))
                            EXCEPT !.over = Overwritten(c)]
    /\ UNCHANGED <<sessionVars, loading, fetch, ncalls, nevents, now, everSeen, rt>>

(***************************************************************************)
(* deleteTimeBlock / deleteTask                                            *)
(***************************************************************************)
DeleteTimeBlock ==
    /\ user # 0
    /\ ncalls < MaxCalls
    /\ \E id \in Targets :
        LET c == ncalls + 1
            previous == timeBlocksRef
            next == Remove(timeBlocks, id)
            rec == NewCall(c, [IdleCall EXCEPT !.op = "delete",
                                               !.id = id,
                                               !.previousList = previous])
        IN  /\ syncState(next)
            /\ calls' = Forget(Disturb([calls EXCEPT ![c] = rec], c, next), id)
            /\ ev' = Other
    /\ ncalls' = ncalls + 1
    /\ UNCHANGED <<sessionVars, loading, fetch, nevents, now, everSeen, rt>>

DeleteSuccess ==
    /\ \E c \in CallIds :
        /\ calls[c].op = "delete"
        /\ calls' = [calls EXCEPT ![c] = IdleCall]
        /\ ev' = Event("deleteOk", FALSE, NoError, 0)
    /\ UNCHANGED <<sessionVars, listVars, loading, fetch, ncalls,
                   nevents, now, everSeen, rt>>

DeleteFailure ==
    /\ \E c \in CallIds, error \in EngineErrors,
          caller \in Callers(variant, "delete") :
        /\ calls[c].op = "delete"
        /\ LET next == calls[c].previousList
           IN  /\ syncState(next)
               /\ calls' = Settle(c, next)
               /\ ev' = Event("deleteFail", Rethrows(variant), error,
                              1 + CallerToasts(caller, Rethrows(variant)))
    /\ UNCHANGED <<sessionVars, loading, fetch, ncalls, nevents, now, everSeen, rt>>

Next ==
    \/ FetchSuccess
    \/ FetchFailure
    \/ RealtimeChange
    \/ AddTimeBlock
    \/ AddSuccess
    \/ AddFailure
    \/ UpdateTimeBlock
    \/ UpdateMissing
    \/ UpdateSuccess
    \/ UpdateFailure
    \/ DeleteTimeBlock
    \/ DeleteSuccess
    \/ DeleteFailure

Spec == Init /\ [][Next]_vars

(***************************************************************************)
(* reorderTasks of useTaskPool.  The first version takes the tasks in      *)
(* their new order (the view passes arrayMove of the list it shows), has   *)
(* no user in its closure and writes each position with .eq('id') only;    *)
(* the second takes identifiers, looks each up in the ref, drops what it   *)
(* does not find and scopes each write by user.id.  Neither awaits through *)
(* retry(), neither rethrows.                                              *)
(***************************************************************************)
HasReorder(v) == v \in {"taskPool", "taskPool2"}

\* mutant: every task gets the position of the first
withPositionsFlat(ordered) ==
    [n \in 1..Len(ordered) |-> Entity(ordered[n].id, 0)]

\* ordered.map((task, index) => ({ ...task, position: index }))
withPositions(ordered) ==
    [n \in 1..Len(ordered) |-> Entity(ordered[n].id, n - 1)]

\* orderedIds.map((id, index) => found ? { ...found, position: index + 1 }
\*                                     : null).filter(Boolean)
RECURSIVE reorderedFrom(_, _, _)
reorderedFrom(ref, orderedIds, index) ==
    IF index > Len(orderedIds) THEN <<>>
    ELSE LET found == Find(ref, orderedIds[index])
             rest == reorderedFrom(ref, orderedIds, index + 1)
         IN  IF found = NoEntity THEN rest
             ELSE <<Entity(found.id, index)>> \o rest

\* the arguments a caller can pass: the list on screen in another order, or
\* identifiers in some order
Orderings(v) ==
    IF v = "taskPool"
    THEN {[n \in 1..Len(timeBlocks) |-> timeBlocks[p[n]]] :
              p \in Permutations(1..Len(timeBlocks))}
    ELSE {q \in SeqsUpTo(Targets, MaxReorder) :
              \A i, j \in 1..Len(q) : q[i] = q[j] => i = j}

ReorderTasks ==
    /\ HasReorder(variant)
    /\ variant = "taskPool2" => user # 0
    /\ ncalls < MaxCalls
    /\ \E ordered \in Orderings(variant) :
        LET c == ncalls + 1
            next == IF variant = "taskPool" THEN withPositions(ordered)
                    ELSE reorderedFrom(timeBlocksRef, ordered, 1)
            orderedIds == IF variant = "taskPool"
                          THEN [n \in 1..Len(ordered) |-> ordered[n].id]
                          ELSE ordered
            rec == [NewCall(c, [IdleCall EXCEPT !.op = "reorder",
                                               !.ordered = orderedIds,
                                               !.writes = Len(next)])
                       EXCEPT !.owner = IF variant = "taskPool" THEN 0 ELSE user]
        IN  /\ syncState(next)
            /\ calls' = Disturb([calls EXCEPT ![c] = rec], c, next)
            /\ ev' = Other
    /\ ncalls' = ncalls + 1
    /\ UNCHANGED <<sessionVars, loading, fetch, nevents, now, everSeen, rt>>

\* Promise.all resolves.  A write the data store refuses resolves too, with
\* the error in its response (the mutations test `response.error` for that);
\* reorderTasks does not look at the responses.  The error of the event is
\* the error of such a response, NoError when every write went through.
ReorderSuccess ==
    /\ \E c \in CallIds, error \in EngineErrors \cup {NoError} :
        /\ calls[c].op = "reorder"
        /\ error # NoError => calls[c].writes > 0
        /\ calls' = [calls EXCEPT ![c] = IdleCall]
        /\ ev' = Event("reorderOk", FALSE, error, 0)
    /\ UNCHANGED <<sessionVars, listVars, loading, fetch, ncalls,
                   nevents, now, everSeen, rt>>

\* Promise.all rejects: a toast, and in the second version
\* syncState(() => tasksRef.current)
ReorderFailure ==
    /\ \E c \in CallIds, error \in EngineErrors :
        /\ calls[c].op = "reorder"
        /\ calls[c].writes > 0
        /\ LET next == IF variant = "taskPool2" THEN timeBlocksRef
                       ELSE timeBlocks
           IN  /\ syncState(next)
               /\ calls' = Settle(c, next)
               /\ ev' = Event("reorderFail", FALSE, error, 1)
    /\ UNCHANGED <<sessionVars, loading, fetch, ncalls, nevents, now, everSeen, rt>>

NextReorder ==
    \/ Next
    \/ ReorderTasks
    \/ ReorderSuccess
    \/ ReorderFailure

SpecReorder == Init /\ [][NextReorder]_vars

(***************************************************************************)
(* Runs in which the load has settled, no change event is delivered and    *)
(* every persistence call fails terminally.  `origin` keeps the LocalState *)
(* the load left, which is the LocalState before the first call.           *)
(***************************************************************************)
AllFailInit ==
    /\ variant \in Variants
    /\ origin \in LoadedLists
    /\ timeBlocks = origin
    /\ timeBlocksRef = origin
    /\ loading = FALSE
    /\ fetch = "done"
    /\ calls = [c \in CallIds |-> IdleCall]
    /\ ncalls = 0
    /\ nevents = 0
    /\ now = 1
    /\ everSeen = Ids(origin)
    /\ ev = Other
    /\ user = 1
    /\ staleFetch = {}
    /\ pending = <<>>
    /\ rt = IdleRetry
    /\ gen = IdleGen
    /\ nextPositionMemo = Remember(variant, FirstMemo, origin)
    /\ channels = Resubscribe(variant, {}, 0, 1)
    /\ schedule = IdleSchedule

NextAllFail ==
    \/ AddTimeBlock
    \/ AddFailure
    \/ UpdateTimeBlock
    \/ UpdateMissing
    \/ UpdateFailure
    \/ DeleteTimeBlock
    \/ DeleteFailure

SpecAllFail == AllFailInit /\ [][NextAllFail]_vars

(***************************************************************************)
(* The owner changes.  `user` is a dependency of the effect: when it       *)
(* changes, the cleanup removes the channel and the effect runs again,     *)
(* opening a channel filtered by the new user.                             *)
(* Nothing cancels the load or the mutation calls in flight.               *)
(***************************************************************************)
Users == 1..NumUsers

\* fetchTasks of the second useTaskPool begins with setLoading(true)
SetsLoading(v) == v = "taskPool2"

\* The users sign in in increasing order, and a run ends signed out.
UserChange ==
    /\ user # 0
    /\ \E u \in {0} \cup {v \in Users : v > user} :
        LET next == IF u = 0 THEN <<>> ELSE timeBlocks
        IN  /\ user' = u
            /\ channels' = Resubscribe(variant, channels, user, u)
            /\ syncState(next)
            /\ calls' = Disturb(calls, 0, next)
            /\ loading' = IF u = 0 THEN FALSE
                          ELSE IF SetsLoading(variant) THEN TRUE
                          ELSE loading
            /\ fetch' = IF u = 0 THEN "done" ELSE "pending"
    /\ staleFetch' = IF fetch = "pending" THEN staleFetch \cup {user}
                     ELSE staleFetch
    /\ ev' = Other
    /\ UNCHANGED <<variant, ncalls, nevents, now, everSeen, rt, pending, origin,
                   gen, schedule>>

\* a load begun by an earlier run of the effect resolves
StaleFetchSuccess ==
    /\ \E o \in staleFetch, formatted \in LoadedLists :
        /\ syncState(formatted)
        /\ everSeen' = everSeen \cup Ids(formatted)
        /\ calls' = [c \in CallIds |->
                        [Disturb(calls, 0, formatted)[c] EXCEPT !.merged = {}]]
        /\ staleFetch' = staleFetch \ {o}
    /\ loading' = FALSE
    /\ ev' = Other
    /\ UNCHANGED <<variant, fetch, ncalls, nevents, now, rt, user, pending,
                   origin, gen, channels, schedule>>

StaleFetchFailure ==
    /\ \E o \in staleFetch, error \in EngineErrors :
        /\ staleFetch' = staleFetch \ {o}
        /\ ev' = Event("fetchFail", FALSE, error, 1)
    /\ loading' = FALSE
    /\ UNCHANGED <<variant, listVars, fetch, calls, ncalls,
                   nevents, now, everSeen, rt, user, pending, origin, gen,
                   channels, schedule>>

\* mutant: the call made without a user rejects
SignedOutCallThrows ==
    /\ user = 0
    /\ ev' = Event("noUser", TRUE, NoError, 1)
    /\ UNCHANGED <<variant, listVars, loading, fetch, calls,
                   ncalls, nevents, now, everSeen, rt, user, staleFetch,
                   pending, origin, gen, channels, schedule>>

\* `if (!user) { toast.error('Devi effettuare l'accesso'); return; }`
SignedOutCall ==
    /\ user = 0
    /\ ev' = Event("noUser", FALSE, NoError, 1)
    /\ UNCHANGED <<variant, listVars, loading, fetch, calls,
                   ncalls, nevents, now, everSeen, rt, user, staleFetch,
                   pending, origin, gen, channels, schedule>>

NextOwner ==
    \/ Next
    \/ UserChange
    \/ StaleFetchSuccess
    \/ StaleFetchFailure
    \/ SignedOutCall

SpecOwner == Init /\ [][NextOwner]_vars

(***************************************************************************)
(* The hooks under React's update queue.  Spec takes syncState as one      *)
(* step.  In the source syncState calls setTimeBlocks with an updater, and *)
(* the assignment to the ref is inside the updater: React runs an updater  *)
(* at once when nothing is queued for the component (the eager path) or at *)
(* the next render (the queue), and the state the component returns        *)
(* changes at the render.  An update is a record: the updater's kind and   *)
(* what its closure holds, and whether React has run it already.           *)
(***************************************************************************)
Updater(k, i, e, l) ==
    [kind |-> k, id |-> i, e |-> e, list |-> l, ran |-> FALSE]

\* the updaters the hooks pass; "value" is setTimeBlocks(formatted), a plain
\* value, and an updater of a change event has the event's type as its kind
ApplyUpdater(v, u, s) ==
    CASE u.kind = "append" -> Append(s, u.e)
      [] u.kind = "replace" -> Replace(s, u.id, u.e)
      [] u.kind = "remove" -> Remove(s, u.id)
      [] u.kind \in {"set", "value"} -> u.list
      [] OTHER -> handleRealtimeChange(v, s, [eventType |-> u.kind, row |-> u.e])

\* the state after the queued updates, in order
RECURSIVE Reduce(_, _, _)
Reduce(v, queue, s) ==
    IF queue = <<>> THEN s
    ELSE Reduce(v, Tail(queue), ApplyUpdater(v, Head(queue), s))

\* `timeBlocksRef.current = next` is part of syncState's updater only
WritesRef(u) == u.kind # "value"

\* setTimeBlocks(u): queued, or run at once when the queue is empty.  After
\* setTimeBlocks(formatted) the load assigns the ref itself.  The queue holds
\* fewer than `limit` updates when the call is made.
EnqueueWithin(u, limit) ==
    /\ Len(pending) < limit
    /\ UNCHANGED <<timeBlocks, nextPositionMemo>>
    /\ \/ /\ pending' = Append(pending, u)
          /\ timeBlocksRef' = IF WritesRef(u) THEN timeBlocksRef ELSE u.list
       \/ /\ pending = <<>>
          /\ WritesRef(u)
          /\ pending' = <<[u EXCEPT !.ran = TRUE]>>
          /\ timeBlocksRef' = ApplyUpdater(variant, u, timeBlocks)

Enqueue(u) == EnqueueWithin(u, MaxPending)

\* React renders the component: the queued updaters run in order
Render ==
    /\ pending # <<>>
    /\ timeBlocks' = Reduce(variant, pending, timeBlocks)
    /\ LET late == {n \in 1..Len(pending) :
                        WritesRef(pending[n]) /\ ~pending[n].ran}
           last == CHOOSE n \in late : \A m \in late : m <= n
       IN  timeBlocksRef' =
               IF late = {} THEN timeBlocksRef
               ELSE Reduce(variant, SubSeq(pending, 1, last), timeBlocks)
    /\ nextPositionMemo' = Remember(variant, nextPositionMemo, timeBlocksRef')
    /\ pending' = <<>>
    /\ ev' = Other
    /\ UNCHANGED <<variant, loading, fetch, calls, ncalls, nevents, now,
                   everSeen, rt, user, staleFetch, origin, gen, channels,
                   schedule>>

queueVars == <<variant, rt, user, staleFetch, origin, gen, channels, schedule>>

\* the closure of a call; the history fields are left as they are
QueuedCall(rec) == [rec EXCEPT !.owner = user]

QueuedFetchSuccess ==
    /\ fetch = "pending"
    /\ \E formatted \in LoadedLists :
        /\ Enqueue(Updater(IF variant = "taskPool2" THEN "set" ELSE "value",
                           0, NoEntity, formatted))
        /\ everSeen' = everSeen \cup Ids(formatted)
    /\ loading' = FALSE
    /\ fetch' = "done"
    /\ ev' = Other
    /\ UNCHANGED <<queueVars, calls, ncalls, nevents, now>>

QueuedRealtimeChange ==
    /\ channels # {}
    /\ nevents < MaxEvents
    /\ \E payload \in Payloads :
        /\ Enqueue(Updater(payload.eventType, payload.row.id, payload.row, <<>>))
        /\ everSeen' = everSeen \cup {payload.row.id}
    /\ nevents' = nevents + 1
    /\ ev' = Other
    /\ UNCHANGED <<queueVars, loading, fetch, calls, ncalls, now>>

QueuedAdd ==
    /\ user # 0
    /\ ncalls < MaxCalls
    /\ \E block \in Drafts(variant), s \in ServerIds \ everSeen,
          t \in {now, now + 1} :
        LET c == ncalls + 1
            temporaryId == TemporaryId(t)
            optimisticBlock == [block EXCEPT !.id = temporaryId]
            rec == QueuedCall([IdleCall EXCEPT !.op = "add",
                                              !.id = temporaryId,
                                              !.block = block,
                                              !.srvId = s])
        IN  /\ block.key <= MaxKey + 1
            /\ t <= MaxNow
            /\ now' = t
            /\ Enqueue(Updater("append", temporaryId, optimisticBlock, <<>>))
            /\ calls' = [calls EXCEPT ![c] = rec]
            /\ everSeen' = everSeen \cup {s}
    /\ ncalls' = ncalls + 1
    /\ ev' = Other
    /\ UNCHANGED <<queueVars, loading, fetch, nevents>>

QueuedAddSuccess ==
    /\ \E c \in CallIds :
        /\ calls[c].op = "add"
        /\ LET row == Entity(calls[c].srvId, calls[c].block.key)
               inserted == mapRowToTimeBlock(row)
           IN  Enqueue(Updater("replace", calls[c].id, inserted, <<>>))
        /\ calls' = [calls EXCEPT ![c] = IdleCall]
    /\ ev' = Event("addOk", FALSE, NoError, 0)
    /\ UNCHANGED <<queueVars, loading, fetch, ncalls, nevents, now, everSeen>>

QueuedAddFailure ==
    /\ \E c \in CallIds, error \in EngineErrors :
        /\ calls[c].op = "add"
        /\ Enqueue(Updater("remove", calls[c].id, NoEntity, <<>>))
        /\ calls' = [calls EXCEPT ![c] = IdleCall]
        /\ ev' = Event("addFail", Rethrows(variant), error, 1)
    /\ UNCHANGED <<queueVars, loading, fetch, ncalls, nevents, now, everSeen>>

QueuedUpdate ==
    /\ user # 0
    /\ ncalls < MaxCalls
    /\ \E id \in Targets, updates \in Patches :
        LET c == ncalls + 1
            previous == Find(timeBlocksRef, id)
            optimistic == ApplyUpdates(previous, updates)
            rec == QueuedCall([IdleCall EXCEPT !.op = "update",
                                              !.id = id,
                                              !.updates = updates,
                                              !.previous = previous])
        IN  /\ previous # NoEntity
            /\ Enqueue(Updater("replace", id, optimistic, <<>>))
            /\ calls' = [calls EXCEPT ![c] = rec]
    /\ ncalls' = ncalls + 1
    /\ ev' = Other
    /\ UNCHANGED <<queueVars, loading, fetch, nevents, now, everSeen>>

QueuedUpdateSuccess ==
    /\ \E c \in CallIds, base \in Rows :
        /\ calls[c].op = "update"
        /\ base.id = calls[c].id
        /\ LET updated == mapRowToTimeBlock(ApplyUpdates(base, calls[c].updates))
           IN  Enqueue(Updater("replace", calls[c].id, updated, <<>>))
        /\ calls' = [calls EXCEPT ![c] = IdleCall]
    /\ ev' = Event("updateOk", FALSE, NoError, 0)
    /\ UNCHANGED <<queueVars, loading, fetch, ncalls, nevents, now, everSeen>>

QueuedUpdateFailure ==
    /\ \E c \in CallIds, error \in EngineErrors :
        /\ calls[c].op = "update"
        /\ Enqueue(Updater("replace", calls[c].id, calls[c].previous, <<>>))
        /\ calls' = [calls EXCEPT ![c] = IdleCall]
        /\ ev' = Event("updateFail", Rethrows(variant), error, 1)
    /\ UNCHANGED <<queueVars, loading, fetch, ncalls, nevents, now, everSeen>>

QueuedDelete ==
    /\ user # 0
    /\ ncalls < MaxCalls
    /\ \E id \in Targets :
        LET c == ncalls + 1
            rec == QueuedCall([IdleCall EXCEPT !.op = "delete",
                                              !.id = id,
                                              !.previousList = timeBlocksRef])
        IN  /\ Enqueue(Updater("remove", id, NoEntity, <<>>))
            /\ calls' = [calls EXCEPT ![c] = rec]
    /\ ncalls' = ncalls + 1
    /\ ev' = Other
    /\ UNCHANGED <<queueVars, loading, fetch, nevents, now, everSeen>>

QueuedDeleteFailure ==
    /\ \E c \in CallIds, error \in EngineErrors :
        /\ calls[c].op = "delete"
        /\ Enqueue(Updater("set", 0, NoEntity, calls[c].previousList))
        /\ calls' = [calls EXCEPT ![c] = IdleCall]
        /\ ev' = Event("deleteFail", Rethrows(variant), error, 1)
    /\ UNCHANGED <<queueVars, loading, fetch, ncalls, nevents, now, everSeen>>

NextQueued ==
    \/ QueuedFetchSuccess
    \/ FetchFailure
    \/ QueuedRealtimeChange
    \/ QueuedAdd
    \/ QueuedAddSuccess
    \/ QueuedAddFailure
    \/ QueuedUpdate
    \/ UpdateMissing
    \/ QueuedUpdateSuccess
    \/ QueuedUpdateFailure
    \/ QueuedDelete
    \/ DeleteSuccess
    \/ QueuedDeleteFailure
    \/ Render

SpecQueued == Init /\ [][NextQueued]_vars

(***************************************************************************)
(* reorderTasks under React's update queue.  The view computes the new     *)
(* order from the list of its last render (handleDragEnd: arrayMove of     *)
(* taskPoolTasks) and calls reorderTasks in the same handler; an update    *)
(* that is queued and not yet rendered is not in that list.  A reorder     *)
(* may be queued behind the updates already there.                         *)
(***************************************************************************)
QueuedReorder ==
    /\ HasReorder(variant)
    /\ variant = "taskPool2" => user # 0
    /\ ncalls < MaxCalls
    /\ \E reordered \in Orderings("taskPool") :
        LET c == ncalls + 1
            orderedIds == [n \in 1..Len(reordered) |-> reordered[n].id]
            next == IF variant = "taskPool" THEN withPositions(reordered)
                    ELSE reorderedFrom(timeBlocksRef, orderedIds, 1)
            rec == [IdleCall EXCEPT
                       !.op = "reorder",
                       !.ordered = orderedIds,
                       !.writes = Len(next),
                       !.owner = IF variant = "taskPool" THEN 0 ELSE user]
        IN  /\ EnqueueWithin(Updater("set", 0, NoEntity, next), MaxPending + 1)
            /\ calls' = [calls EXCEPT ![c] = rec]
    /\ ncalls' = ncalls + 1
    /\ ev' = Other
    /\ UNCHANGED <<queueVars, loading, fetch, nevents, now, everSeen>>

NextQueuedReorder ==
    \/ QueuedFetchSuccess
    \/ FetchFailure
    \/ QueuedRealtimeChange
    \/ QueuedReorder
    \/ ReorderSuccess
    \/ Render

SpecQueuedReorder == Init /\ [][NextQueuedReorder]_vars

(***************************************************************************)
(* TodayView's scheduleTask: a pool task dropped on a slot of the day.     *)
(* The view wires useTimeBlocks (addTimeBlock) and the first useTaskPool   *)
(* (deleteTask).  `variant` is "timeBlocks" and the lists are those of     *)
(* useTimeBlocks; schedule.pool is the LocalState of the pool hook, whose  *)
(* load has settled.  schedule.pc is the position of scheduleTask:         *)
(* "creating" while it awaits addTimeBlock, "deleting" while it awaits     *)
(* deleteTask, "done" after toast.success, "failed" after its catch.       *)
(* schedule.deletes counts the persistence deletes issued on task_pool,    *)
(* and schedule.create (history) tells how addTimeBlock settled.           *)
(***************************************************************************)
Pools == {p \in LoadedLists : Len(p) > 0}

ScheduleInit ==
    /\ HookInit
    /\ variant = "timeBlocks"
    /\ rt = IdleRetry
    /\ gen = IdleGen
    /\ \E pool \in Pools : schedule = [IdleSchedule EXCEPT !.pool = pool]

\* the synchronous part of deleteTask(task.id): `previous` is captured, the
\* task is filtered out of LocalState and the delete is issued
deleteTask(sch) ==
    [sch EXCEPT !.pc = "deleting",
                !.previous = sch.pool,
                !.pool = Remove(sch.pool, sch.task.id),
                !.deletes = @ + 1]

\* mutant: deleteTask is called however addTimeBlock settled
afterCreateAlwaysDeletes(sch, thrown) ==
    deleteTask([sch EXCEPT !.create = IF thrown THEN "failed" ELSE "ok"])

\* scheduleTask after `await addTimeBlock(newBlock)`: a rejection goes to
\* the catch, which logs and emits a toast.error; otherwise the next
\* statement calls deleteTask
afterCreate(sch, thrown) ==
    IF thrown
    THEN [sch EXCEPT !.pc = "failed", !.create = "failed"]
    ELSE deleteTask([sch EXCEPT !.create = "ok"])

\* what the steps of scheduleTask leave alone
outsideSchedule == <<variant, user, staleFetch, pending, origin, gen, channels,
                     loading, fetch, nevents, rt>>

\* handleDragEnd finds the dragged task in taskPoolTasks and calls
\* scheduleTask, which runs up to the first await inside addTimeBlock
ScheduleTask ==
    /\ user # 0
    /\ schedule.pc \in {"idle", "done", "failed"}
    /\ ncalls < MaxCalls
    /\ \E n \in 1..Len(schedule.pool), block \in Drafts(variant),
          s \in ServerIds \ everSeen, t \in {now, now + 1} :
        LET c == ncalls + 1
            activeTask == schedule.pool[n]
            temporaryId == TemporaryId(t)
            optimisticBlock == [block EXCEPT !.id = temporaryId]
            next == Append(timeBlocks, optimisticBlock)
            rec == NewCall(c, [IdleCall EXCEPT !.op = "add",
                                               !.id = temporaryId,
                                               !.block = block,
                                               !.srvId = s])
        IN  /\ t <= MaxNow
            /\ now' = t
            /\ syncState(next)
            /\ calls' = Disturb([calls EXCEPT ![c] = rec], c, next)
            /\ everSeen' = everSeen \cup {s}
            /\ ev' = Other
            /\ schedule' = [schedule EXCEPT !.pc = "creating",
                                            !.task = activeTask,
                                            !.call = c,
                                            !.create = "none"]
    /\ ncalls' = ncalls + 1
    /\ UNCHANGED outsideSchedule

\* the insert succeeds: addTimeBlock replaces the temporary entity and
\* resolves, and scheduleTask goes on
ScheduleCreated ==
    /\ schedule.pc = "creating"
    /\ LET c == schedule.call
           row == Entity(calls[c].srvId, calls[c].block.key)
           inserted == mapRowToTimeBlock(row)
           next == Replace(timeBlocks, calls[c].id, inserted)
       IN  /\ calls[c].op = "add"
           /\ syncState(next)
           /\ calls' = Settle(c, next)
           /\ ev' = Event("addOk", FALSE, NoError, 0)
           /\ schedule' = afterCreate(schedule, FALSE)
    /\ UNCHANGED <<outsideSchedule, ncalls, now, everSeen>>

\* the insert fails terminally: addTimeBlock removes the temporary entity,
\* emits its toast.error and rethrows, and scheduleTask goes on
ScheduleCreateFailed ==
    /\ schedule.pc = "creating"
    /\ \E error \in EngineErrors :
        LET c == schedule.call
            next == Remove(timeBlocks, calls[c].id)
            thrown == Rethrows(variant)
        IN  /\ calls[c].op = "add"
            /\ syncState(next)
            /\ calls' = Settle(c, next)
            /\ ev' = Event("addFail", thrown, error,
                           1 + CallerToasts("scheduleTask", thrown))
            /\ schedule' = afterCreate(schedule, thrown)
    /\ UNCHANGED <<outsideSchedule, ncalls, now, everSeen>>

\* the delete succeeds: deleteTask resolves and scheduleTask emits
\* toast.success
ScheduleDeleted ==
    /\ schedule.pc = "deleting"
    /\ schedule' = [schedule EXCEPT !.pc = "done"]
    /\ ev' = Other
    /\ UNCHANGED <<outsideSchedule, listVars, calls, ncalls, now, everSeen>>

\* the delete fails terminally: deleteTask restores `previous`, emits its
\* toast.error and rethrows to the catch of scheduleTask
ScheduleDeleteFailed ==
    /\ schedule.pc = "deleting"
    /\ schedule' = [schedule EXCEPT !.pc = "failed",
                                    !.pool = schedule.previous]
    /\ ev' = Other
    /\ UNCHANGED <<outsideSchedule, listVars, calls, ncalls, now, everSeen>>

\* a DELETE event of the pool's channel: the handler filters the row out
PoolChange ==
    /\ user # 0
    /\ \E id \in Ids(schedule.pool) :
        schedule' = [schedule EXCEPT !.pool = Remove(schedule.pool, id)]
    /\ ev' = Other
    /\ UNCHANGED <<outsideSchedule, listVars, calls, ncalls, now, everSeen>>

NextSchedule ==
    \/ FetchSuccess
    \/ FetchFailure
    \/ RealtimeChange
    \/ ScheduleTask
    \/ ScheduleCreated
    \/ ScheduleCreateFailed
    \/ ScheduleDeleted
    \/ ScheduleDeleteFailed
    \/ PoolChange

SpecSchedule == ScheduleInit /\ [][NextSchedule]_vars

\* C40: scheduleTask issues the pool delete only in the step in which its
\* addTimeBlock resolves, and in the step in which addTimeBlock rejects it
\* issues no delete, leaves the pool's LocalState as it was, with the task
\* in it if it was there, and ends in its catch.
DeleteOnlyAfterCreate ==
    /\ [][schedule'.deletes # schedule.deletes =>
            /\ schedule.pc = "creating"
            /\ calls[schedule.call].op = "add"
            /\ ev'.kind = "addOk"
            /\ ~ev'.thrown
            /\ schedule'.create = "ok"
            /\ schedule'.deletes = schedule.deletes + 1]_vars
    /\ [][(schedule.pc = "creating" /\ ev'.kind = "addFail") =>
            /\ ev'.thrown
            /\ schedule'.deletes = schedule.deletes
            /\ schedule'.pool = schedule.pool
            /\ schedule'.pc = "failed"]_vars
    /\ [](schedule.create = "failed" => schedule.pc = "failed")

DeleteOnlyAfterCreateWitness ==
    /\ schedule.pc = "failed"
    /\ schedule.create = "failed"
    /\ schedule.deletes = 0
    /\ schedule.task.id \in Ids(schedule.pool)
    /\ ev.kind = "addFail"

(***************************************************************************)
(* Properties of the hooks                                                 *)
(***************************************************************************)
\* the call a step issues, and the call a step settles
Issued(c) == calls[c].op = "idle" /\ calls'[c].op # "idle"
Settled(c) == calls[c].op # "idle" /\ calls'[c].op = "idle"
SettleKinds ==
    {"addOk", "addFail", "updateOk", "updateFail", "deleteOk", "deleteFail"}

\* C1 (rollback exactness, update): an update whose persistence call fails
\* with a non-retryable error leaves LocalState as it was before the call
\* (the entity with its pre-patch fields, every other entity unchanged) and
\* rethrows the error to the caller.
UpdateRollbackExact ==
    [][\A c \in CallIds :
          (/\ Settled(c)
           /\ ev'.kind = "updateFail"
           /\ ~isRetryableError(ev'.error)
           /\ calls[c].quiet)
              => (timeBlocks' = calls[c].pre /\ ev'.thrown)]_vars

\* C2 (rollback exactness, delete): a delete of a present entity whose
\* persistence call fails with a non-retryable error restores LocalState
\* exactly, in the same order, and surfaces the error to the caller.
DeleteRollbackExact ==
    [][\A c \in CallIds :
          (/\ Settled(c)
           /\ ev'.kind = "deleteFail"
           /\ ~isRetryableError(ev'.error)
           /\ calls[c].quiet
           /\ calls[c].id \in Ids(calls[c].pre))
              => (timeBlocks' = calls[c].pre /\ ev'.thrown)]_vars

\* C3 (temporary-identifier replacement): create puts exactly one entity
\* with the temporary identifier and the draft's fields into LocalState, and
\* when the insert succeeds LocalState holds exactly one entity with the
\* server's identifier and none with the temporary one, however change events
\* interleave with the create (the only mutation call of the run, made after
\* the initial load).
TemporaryIdReplaced ==
    [][\A c \in CallIds :
          /\ (Issued(c) /\ calls'[c].op = "add" /\ ncalls' = 1)
                => /\ Count(timeBlocks', calls'[c].id) = 1
                   /\ IsTemporary(calls'[c].id)
                   /\ Find(timeBlocks', calls'[c].id).key = calls'[c].block.key
          /\ (/\ Settled(c)
              /\ ev'.kind = "addOk"
              /\ ncalls = 1
              /\ calls[c].loaded)
                => /\ Count(timeBlocks', calls[c].srvId) = 1
                   /\ Count(timeBlocks', calls[c].id) = 0]_vars

\* C4 (unique identifiers): LocalState never holds two entities with the
\* same identifier.
NoDuplicateIds == NoDuplicates(timeBlocks)

\* C5 (idempotent insert-merge): merging an insert event twice gives the same
\* LocalState as merging it once.
InsertMergeIdempotent ==
    \A payload \in Payloads :
        payload.eventType = "INSERT" =>
            LET once == handleRealtimeChange(variant, timeBlocks, payload)
            IN  handleRealtimeChange(variant, once, payload) = once

\* C6 (ordering invariant): LocalState is sorted by its sort key after every
\* operation, the optimistic step and the reconciliation included.
OrderingInvariant == Sorted(timeBlocks)

\* C7 (no-op on missing target): update or delete of an identifier that is
\* not in LocalState changes nothing and throws nothing, whatever the
\* persistence call does.
NoopOnMissingTarget ==
    [][/\ ev'.kind = "updateNoop" => (timeBlocks' = timeBlocks /\ ~ev'.thrown)
       /\ \A c \in CallIds :
            /\ (/\ Issued(c)
                /\ calls'[c].op = "delete"
                /\ calls'[c].id \notin Ids(timeBlocks))
                  => timeBlocks' = timeBlocks
            /\ (/\ Settled(c)
                /\ ev'.kind \in {"deleteOk", "deleteFail"}
                /\ calls[c].id \notin Ids(calls[c].previousList))
                  => (timeBlocks' = timeBlocks /\ ~ev'.thrown)]_vars

\* C10 (no lost updates): an entity that a change event inserted while a call
\* was in flight is still in LocalState when that call settles, unless a
\* later delete (event or call) removed it.
NoLostUpdates ==
    [][\A c \in CallIds :
          (Settled(c) /\ ev'.kind \in SettleKinds)
              => calls[c].merged \subseteq Ids(timeBlocks')]_vars

\* C16 (events on an absent identifier): an update event or a delete event
\* whose identifier is not in LocalState leaves LocalState as it is: an
\* update never inserts, a delete of an absent identifier is not an error.
AbsentTargetEventIgnored ==
    \A payload \in Payloads :
        (/\ payload.eventType \in {"UPDATE", "DELETE"}
         /\ payload.row.id \notin Ids(timeBlocks))
            => handleRealtimeChange(variant, timeBlocks, payload) = timeBlocks

\* C17 (owner scope): every persistence call a mutation issues (insert,
\* update, delete, the position writes of a reorder) carries the identifier
\* of the current owner as its scope.
CallsScopedByOwner ==
    [][\A c \in CallIds :
          Issued(c) => (user # 0 /\ calls'[c].owner = user)]_vars

\* C18 (one notification per failure): a create, update or delete whose
\* persistence call fails terminally emits exactly one failure notification.
OneNotificationPerFailure ==
    [][\A c \in CallIds :
          (Settled(c) /\ ev'.kind \in {"addFail", "updateFail", "deleteFail"})
              => ev'.toasts = 1]_vars

\* C19 (create failure): when the insert fails terminally, the one entity
\* with the temporary identifier leaves LocalState in that step, every other
\* entity stays as it was, and the error is rethrown to the caller of create.
CreateFailureRemovesTemporary ==
    [][\A c \in CallIds :
          (Settled(c) /\ ev'.kind = "addFail") =>
              /\ \/ /\ calls[c].id \notin Ids(timeBlocks)
                    /\ timeBlocks' = timeBlocks
                 \/ \E n \in 1..Len(timeBlocks) :
                        /\ timeBlocks[n].id = calls[c].id
                        /\ timeBlocks' =
                              SubSeq(timeBlocks, 1, n - 1)
                                  \o SubSeq(timeBlocks, n + 1, Len(timeBlocks))
              /\ ev'.thrown]_vars

\* C20 (all-fail restoration): when every create, update and delete issued
\* has failed terminally and settled, and no change event was delivered,
\* LocalState equals the LocalState before the first call, whatever the
\* overlap of the calls and the order in which they settle.
AllFailedRestoresOrigin ==
    (ncalls > 0 /\ \A c \in CallIds : ~InFlight(c)) => timeBlocks = origin

\* C11 (no dangling temporary identifier): a temporary identifier in
\* LocalState belongs to a create call that is still in flight; once the
\* create has settled its temporary identifier is never in LocalState again.
NoDanglingTemporaryId ==
    \A i \in Ids(timeBlocks) :
        IsTemporary(i) =>
            \E c \in CallIds : calls[c].op = "add" /\ calls[c].id = i

\* C12 (cancellation): after the owner has changed, the resolution of a
\* persistence call issued before the change (a mutation call or the initial
\* load, success or terminal failure) leaves LocalState as it is.
StaleResolutionDiscarded ==
    [][/\ \A c \in CallIds :
            (Settled(c) /\ calls[c].owner # user) => timeBlocks' = timeBlocks
       /\ (staleFetch' # staleFetch /\ user' = user)
            => timeBlocks' = timeBlocks]_vars

\* C13 (reference and state in sync): in every state between two steps the
\* ref that update, delete and reorder read equals the UI-visible LocalState,
\* and it holds the result of every synchronization call issued so far.
RefInSync ==
    /\ timeBlocksRef = timeBlocks
    /\ timeBlocksRef = Reduce(variant, pending, timeBlocks)

\* C21 (position of a created pool task): create gives the new task a sort
\* key one greater than the greatest sort key in LocalState at the time of
\* the call, so the created task shares its position with no task already
\* there.  The first useTaskPool takes the position from its caller, and the
\* view passes the length of the list it shows.
CreatePositionAboveMaximum ==
    [][\A c \in CallIds :
          (/\ Issued(c)
           /\ calls'[c].op = "add"
           /\ \/ variant = "taskPool2"
              \/ variant = "taskPool" /\ calls'[c].block.key = Len(timeBlocks))
              => /\ \A n \in 1..Len(timeBlocks) :
                        timeBlocks[n].key < calls'[c].block.key
                 /\ timeBlocks # <<>> =>
                        \E n \in 1..Len(timeBlocks) :
                            timeBlocks[n].key + 1 = calls'[c].block.key]_vars

\* C27 (frame of the update rollback): the rollback of a failed update
\* touches only what carries the updated identifier: it adds no entity and
\* removes none (an entity that a change event deleted while the update was
\* in flight does not come back), and every other entity stays as it is at
\* rollback time, in its place.
UpdateRollbackFrame ==
    [][\A c \in CallIds :
          (Settled(c) /\ ev'.kind = "updateFail") =>
              /\ Len(timeBlocks') = Len(timeBlocks)
              /\ \A n \in 1..Len(timeBlocks) :
                    IF timeBlocks[n].id = calls[c].id
                    THEN timeBlocks'[n] = calls[c].previous
                    ELSE timeBlocks'[n] = timeBlocks[n]
              /\ calls[c].id \notin Ids(timeBlocks)
                    => calls[c].id \notin Ids(timeBlocks')]_vars

\* the only call was an update, its target left LocalState while it was in
\* flight (a delete event after the load), and the rollback has left
\* LocalState empty
UpdateRollbackFrameWitness ==
    /\ ev.kind = "updateFail"
    /\ ncalls = 1
    /\ nevents = 1
    /\ fetch = "done"
    /\ timeBlocks = <<>>

\* C28 (no serialization per identifier): two updates of one identifier can
\* be in flight together; when the first has settled successfully and the
\* second then fails terminally, the rollback of the second puts its
\* captured `previous` where the first's success had written the server's
\* entity.
RollbackOverwritesSuccess ==
    [][\A c \in CallIds :
          (/\ Settled(c)
           /\ ev'.kind = "updateFail"
           /\ calls[c].wrote # NoEntity
           /\ Find(timeBlocks, calls[c].id) = calls[c].wrote)
              => /\ Find(timeBlocks', calls[c].id) = calls[c].previous
                 /\ ev'.over = Overwritten(c)]_vars

\* the server's entity that the first update's success wrote is gone: the
\* failed second update has put its older snapshot in its place
RollbackOverwritesSuccessWitness ==
    /\ ev.kind = "updateFail"
    /\ ev.over # NoEntity
    /\ Some(timeBlocks, ev.over.id)
    /\ Find(timeBlocks, ev.over.id) # ev.over
    /\ \A c \in CallIds : ~InFlight(c)

\* C29 (reorder, optimistic step): after reorder is called with a sequence,
\* LocalState lists the given entities in the order of the sequence, and the
\* sort key of each is its index in the sequence, from 0 where the argument
\* is the array of tasks and from 1 where it is the identifiers; so the
\* positions are distinct and strictly increasing along the list.
ReorderAppliesSequence ==
    [][\A c \in CallIds :
          (Issued(c) /\ calls'[c].op = "reorder") =>
              LET ordered == calls'[c].ordered
                  first == IF variant = "taskPool" THEN 0 ELSE 1
              IN  /\ \A n \in 1..Len(timeBlocks') :
                        \E k \in 1..Len(ordered) :
                            /\ ordered[k] = timeBlocks'[n].id
                            /\ timeBlocks'[n].key = k - 1 + first
                  /\ \A n, m \in 1..Len(timeBlocks') :
                        n < m => timeBlocks'[n].key < timeBlocks'[m].key
                  /\ \A k \in 1..Len(ordered) :
                        ordered[k] \in Ids(timeBlocks)
                            => ordered[k] \in Ids(timeBlocks')]_vars

\* a reorder in flight that has swapped the two entities of LocalState
ReorderAppliesSequenceWitness ==
    \E c \in CallIds :
        /\ calls[c].op = "reorder"
        /\ calls[c].quiet
        /\ Len(calls[c].pre) = 2
        /\ Len(timeBlocks) = 2
        /\ calls[c].pre[1].id # calls[c].pre[2].id
        /\ timeBlocks[1].id = calls[c].pre[2].id
        /\ timeBlocks[2].id = calls[c].pre[1].id

\* C30 (reorder, failed writes): when one or more of the position writes of
\* a reorder fail, LocalState keeps the new ordering, one notification
\* reports the failure, and nothing is rethrown to the caller.
ReorderFailureReported ==
    [][\A c \in CallIds :
          (/\ Settled(c)
           /\ ev'.kind \in {"reorderOk", "reorderFail"}
           /\ ev'.error # NoError)
              => /\ timeBlocks' = timeBlocks
                 /\ ev'.toasts = 1
                 /\ ~ev'.thrown]_vars

\* at most one channel is open, and it is filtered by the current owner
SubscriptionScoped ==
    /\ Cardinality(channels) <= 1
    /\ \A channel \in channels : user # 0 /\ channel.filter = user

OwnerIsolation == user = 0 => timeBlocks = <<>>

\* C33 (update success): when update(id, patch) succeeds, what carries the
\* identifier in LocalState is replaced by the entity the server returned
\* (that identifier, the patch applied); an entity removed while the call
\* was in flight is not inserted again, and every other entity stays as it
\* is, in its place.
UpdateSuccessReplaces ==
    [][\A c \in CallIds :
          (Settled(c) /\ ev'.kind = "updateOk") =>
              \E updated \in Rows :
                  /\ updated.id = calls[c].id
                  /\ calls[c].updates.key # 0 =>
                        updated.key = calls[c].updates.key
                  /\ Len(timeBlocks') = Len(timeBlocks)
                  /\ \A n \in 1..Len(timeBlocks) :
                        IF timeBlocks[n].id = calls[c].id
                        THEN timeBlocks'[n] = updated
                        ELSE timeBlocks'[n] = timeBlocks[n]]_vars

\* the only call was an update whose target left LocalState while it was in
\* flight; the success has left LocalState empty
UpdateSuccessReplacesWitness ==
    /\ ev.kind = "updateOk"
    /\ ncalls = 1
    /\ nevents = 1
    /\ fetch = "done"
    /\ timeBlocks = <<>>

\* C34 (creates in flight together): two create calls in flight at the same
\* time hold distinct temporary identifiers, so settling one of them (the
\* replacement on success, the removal on failure) leaves the optimistic
\* entity of the other where it is.
CreatesHoldDistinctIds ==
    [][\A c, d \in CallIds :
          /\ (c # d /\ calls'[c].op = "add" /\ calls'[d].op = "add")
                => calls'[c].id # calls'[d].id
          /\ (/\ c # d
              /\ calls[c].op = "add"
              /\ calls[d].op = "add"
              /\ Settled(d))
                => Count(timeBlocks', calls[c].id)
                       = Count(timeBlocks, calls[c].id)]_vars

\* LocalState with every queued update applied: what the next render shows
Latest(queue, s) == Reduce(variant, queue, s)

\* C35 (reorder keeps the identifiers): the entities in LocalState just after
\* a reorder call are those that were there just before it, an entity that a
\* change event merged after the caller computed its ordering included; none
\* is lost and none is added.  The reorders looked at are those of a list
\* that has a task to move.
ReorderKeepsIdentifiers ==
    [][\A c \in CallIds :
          (Issued(c) /\ calls'[c].op = "reorder" /\ calls'[c].ordered # <<>>) =>
              Ids(Latest(pending', timeBlocks'))
                  = Ids(Latest(pending, timeBlocks))]_vars

\* C37 (the load overwrites): when the initial load succeeds LocalState
\* becomes exactly the list the load returned; an optimistic entity or a
\* change event applied to LocalState while the load was in flight is
\* overwritten.
LoadOverwrites ==
    [][ev'.kind = "fetchOk" =>
          /\ timeBlocks' = ev'.list
          /\ timeBlocksRef' = ev'.list
          /\ \A c \in CallIds :
                calls[c].op = "add" => calls[c].id \notin Ids(timeBlocks')]_vars

\* the load has just succeeded with one row while a create is in flight,
\* after a change event: the temporary entity is gone
LoadOverwritesWitness ==
    /\ ev.kind = "fetchOk"
    /\ Len(ev.list) = 1
    /\ timeBlocks = ev.list
    /\ nevents = 1
    /\ \E c \in CallIds : calls[c].op = "add"

\* C38 (no owner): while nobody is signed in, a create, update or delete
\* leaves LocalState as it is, issues no persistence call and returns
\* without throwing.
SignedOutCallsDoNothing ==
    [][/\ ev'.kind = "noUser" =>
            /\ timeBlocks' = timeBlocks
            /\ timeBlocksRef' = timeBlocksRef
            /\ calls' = calls
            /\ ncalls' = ncalls
            /\ ~ev'.thrown
       /\ user = 0 => \A c \in CallIds : ~Issued(c)]_vars

\* a call made after the sign-out, with LocalState not empty (a load of the
\* previous owner resolved after the sign-out)
SignedOutCallsDoNothingWitness ==
    /\ ev.kind = "noUser"
    /\ user = 0
    /\ timeBlocks # <<>>

(***************************************************************************)
(* The hooks with the loop of retry() in view: after the load and with no  *)
(* change event, every invocation of a persistence call is a step.  An     *)
(* invocation that rejects either makes retry() wait and invoke again,     *)
(* which touches nothing in the hook, or ends retry() with the error,      *)
(* which runs the catch block.                                             *)
(***************************************************************************)
MutationOps == {"add", "update", "delete"}

\* what retry() does with the error of the invocation of call c
AfterInvocation(c, error) == RetryCatch(WriteOptions, calls[c].attempt, error)

\* mutant: the hook removes the optimistic change while retry() waits
InvocationFailsReverting ==
    /\ \E c \in CallIds, error \in EngineErrors :
        /\ calls[c].op \in MutationOps
        /\ AfterInvocation(c, error) = "wait"
        /\ LET next == IF calls[c].op = "add" THEN Remove(timeBlocks, calls[c].id)
                       ELSE IF calls[c].op = "update"
                            THEN Replace(timeBlocks, calls[c].id, calls[c].previous)
                       ELSE calls[c].previousList
           IN  /\ syncState(next)
               /\ calls' = [calls EXCEPT ![c].attempt = @ + 1]
    /\ ev' = Other
    /\ UNCHANGED <<sessionVars, loading, fetch, ncalls, nevents, now, everSeen, rt>>

\* an invocation rejects and retry() waits before the next one
InvocationFails ==
    /\ \E c \in CallIds, error \in EngineErrors :
        /\ calls[c].op \in MutationOps
        /\ AfterInvocation(c, error) = "wait"
        /\ calls' = [calls EXCEPT ![c].attempt = @ + 1]
    /\ ev' = Other
    /\ UNCHANGED <<sessionVars, listVars, loading, fetch, ncalls, nevents, now,
                   everSeen, rt>>

\* the step settles a call with the error that ended retry()
LastInvocation ==
    \A c \in CallIds : Settled(c) => AfterInvocation(c, ev'.error) # "wait"

AttemptAddFailure == AddFailure /\ LastInvocation
AttemptUpdateFailure == UpdateFailure /\ LastInvocation
AttemptDeleteFailure == DeleteFailure /\ LastInvocation

NextAttempts ==
    \/ AddTimeBlock
    \/ AddSuccess
    \/ AttemptAddFailure
    \/ UpdateTimeBlock
    \/ UpdateMissing
    \/ UpdateSuccess
    \/ AttemptUpdateFailure
    \/ DeleteTimeBlock
    \/ DeleteSuccess
    \/ AttemptDeleteFailure
    \/ InvocationFails

SpecAttempts == AllFailInit /\ [][NextAttempts]_vars

TransientFailuresRetried ==
    [][\A c \in CallIds :
          /\ (InFlight(c) /\ calls'[c].attempt = calls[c].attempt + 1)
                => /\ timeBlocks' = timeBlocks
                   /\ ev'.toasts = 0
                   /\ ~ev'.thrown
          /\ (/\ Settled(c)
              /\ ev'.kind \in {"addFail", "updateFail", "deleteFail"}
              /\ isRetryableError(ev'.error))
                => calls[c].attempt + 1 = WriteOptions.maxRetries + 1
          /\ (Settled(c) /\ ev'.kind \in {"addOk", "updateOk", "deleteOk"})
                => /\ ev'.toasts = 0
                   /\ ~ev'.thrown
                   /\ ev'.kind = "addOk" => calls[c].id \notin Ids(timeBlocks')
                   /\ (ev'.kind = "addOk" /\ calls[c].id \in Ids(timeBlocks))
                         => calls[c].srvId \in Ids(timeBlocks')]_vars

\* a create rolled back after its invocations failed with a retryable error
TransientFailuresRetriedWitness ==
    /\ ev.kind = "addFail"
    /\ isRetryableError(ev.error)
    /\ ev.toasts >= 1
    /\ \A i \in Ids(timeBlocks) : ~IsTemporary(i)

(***************************************************************************)
(* retry(fn, options): one run of the loop. The operation resolves or     *)
(* rejects as the environment decides; `failed` is the history of the      *)
(* errors the invocations rejected with.                                   *)
(***************************************************************************)
Delays == {500, 1000}
RunErrors ==
    {Err("NETWORK_ERROR", "", 0), Err("", "", 503), Err("", "", 429),
     Err("", "", 400)}
RunOptions ==
    {RetryOptions(n, d, b, c) :
        n \in 0..MaxRetriesBound, d \in Delays,
        b \in {"linear", "exponential"},
        c \in {"default", "isRetryableError"}}
        \cup {FetchOptions, WriteOptions}

RetryInit ==
    /\ EngineInit
    /\ variant = "timeBlocks"
    /\ \E opts \in RunOptions :
        rt = [IdleRetry EXCEPT !.status = "running", !.opts = opts]
    /\ gen = IdleGen

\* the values an invocation can resolve with
Results == {"rows", "no rows"}

\* mutant: the loop goes on after a success and invokes the operation again
RetryReturnInvokesAgain ==
    /\ rt.status = "running"
    /\ \E value \in Results :
        rt' = [rt EXCEPT !.status = "returned", !.invocations = @ + 2,
                         !.resolved = Append(Append(@, value), value),
                         !.result = value]
    /\ UNCHANGED engineVars

\* `return await fn()` and fn resolves; `resolved` is the history of the
\* values the invocations resolved with, `result` what retry() returns
RetryReturn ==
    /\ rt.status = "running"
    /\ \E value \in Results :
        rt' = [rt EXCEPT !.status = "returned", !.invocations = @ + 1,
                         !.resolved = Append(@, value), !.result = value]
    /\ UNCHANGED engineVars

\* fn rejects: the catch block
RetryFail ==
    /\ rt.status = "running"
    /\ \E error \in RunErrors :
        LET seen == [rt EXCEPT !.invocations = @ + 1,
                               !.failed = Append(@, error),
                               !.lastError = error]
            todo == RetryCatch(rt.opts, rt.attempt, error)
        IN  rt' = CASE todo = "throw" ->
                        [seen EXCEPT !.status = "thrown", !.thrownError = error]
                    [] todo = "break" ->
                        [seen EXCEPT !.status = "thrown",
                                     !.thrownError = seen.lastError]
                    [] OTHER ->
                        [seen EXCEPT !.status = "waiting",
                                     !.waits = Append(@, BackoffDelay(rt.opts,
                                                                      rt.attempt))]
    /\ UNCHANGED engineVars

\* the timer fires: attempt++ and the loop condition
RetryResume ==
    /\ rt.status = "waiting"
    /\ rt' = IF rt.attempt + 1 <= rt.opts.maxRetries
             THEN [rt EXCEPT !.status = "running", !.attempt = @ + 1]
             ELSE [rt EXCEPT !.status = "thrown", !.attempt = @ + 1,
                             !.thrownError = rt.lastError]
    /\ UNCHANGED engineVars

RetryNext == RetryReturn \/ RetryFail \/ RetryResume

SpecRetry == RetryInit /\ [][RetryNext]_vars

(***************************************************************************)
(* isRetryableError on its own: an error value is drawn and classified.    *)
(* PGRST116 (no rows), 23505 (unique violation) and PGRST301 (JWT) are     *)
(* codes of errors the data store returns.                                 *)
(***************************************************************************)
Codes == {"", "NETWORK_ERROR", "TIMEOUT", "PGRST116", "23505", "PGRST301"}
Messages ==
    {"", "network down", "timeout exceeded", "Failed to fetch", "JWT expired"}
Statuses ==
    {0, 400, 401, 403, 404, 422, 428, 429, 430, 499, 500, 503, 599, 600}
Errors == {Err(c, m, st) : c \in Codes, m \in Messages, st \in Statuses}

ClassifyInit ==
    /\ EngineInit
    /\ variant = "timeBlocks"
    /\ \E error \in Errors : rt = [IdleRetry EXCEPT !.lastError = error]
    /\ gen = IdleGen

Classify ==
    /\ rt.status = "idle"
    /\ rt' = [rt EXCEPT !.status = IF isRetryableError(rt.lastError)
                                   THEN "retryable" ELSE "permanent"]
    /\ UNCHANGED engineVars

SpecClassify == ClassifyInit /\ [][Classify]_vars

(***************************************************************************)
(* The initial load with the loop of retry() in view.  `rt` is the run of  *)
(* retry() that fetchTimeBlocks / fetchTasks awaits; the load settles when *)
(* that run has ended, and change events are merged meanwhile.  Fairness:  *)
(* an invocation of the query settles (resolves or rejects), the timer of  *)
(* a wait fires, and the continuation of the await runs.                   *)
(***************************************************************************)
LoadInit ==
    /\ EngineInit
    /\ rt = [IdleRetry EXCEPT !.status = "running", !.opts = FetchOptions]
    /\ gen = IdleGen

\* retry() has resolved: `if (result.data) ...`, then finally
LoadSuccess == rt.status = "returned" /\ FetchSuccess

\* retry() has rejected: catch, then finally
LoadFailure == rt.status = "thrown" /\ FetchFailure

NextLoad ==
    \/ RetryReturn
    \/ RetryFail
    \/ RetryResume
    \/ LoadSuccess
    \/ LoadFailure
    \/ RealtimeChange

SpecLoad ==
    /\ LoadInit
    /\ [][NextLoad]_vars
    /\ WF_vars(RetryReturn \/ RetryFail)
    /\ WF_vars(RetryResume)
    /\ WF_vars(LoadSuccess \/ LoadFailure)

\* C36 (the loading flag): after an owner is bound the loading flag becomes
\* false in the end, whether the load succeeds, fails with an error that is
\* not retryable or uses up its retries; a load that fails leaves LocalState
\* as it is and propagates no error.
LoadingSettles ==
    /\ <>[](loading = FALSE)
    /\ [][(fetch = "pending" /\ fetch' = "done" /\ rt.status = "thrown")
            => (timeBlocks' = timeBlocks /\ ~ev'.thrown)]_vars

\* the load has used up its retries; the entity a change event merged while
\* it was retrying is still there, and the loading flag is down
LoadingSettlesWitness ==
    /\ fetch = "done"
    /\ loading = FALSE
    /\ rt.status = "thrown"
    /\ rt.invocations = FetchOptions.maxRetries + 1
    /\ nevents = 1
    /\ timeBlocks # <<>>

(***************************************************************************)
(* Properties of retry()                                                   *)
(***************************************************************************)
AllRetryable ==
    \A k \in 1..Len(rt.failed) : retryCondition(rt.opts, rt.failed[k])

\* C14 (retryability classification): an error is classified retryable
\* exactly when it is a network error or a timeout (by its code or by its
\* message) or carries an HTTP status in 500..599 or the status 429; every
\* other error (a validation, not-found or auth error, any other 4xx status)
\* is classified permanent.
ClassificationExact ==
    LET error == rt.lastError
        marked == \/ error.code \in {"NETWORK_ERROR", "TIMEOUT"}
                  \/ error.message \in {"network down", "timeout exceeded"}
        transient == error.status \in (500..599) \cup {429}
    IN  rt.status \in {"retryable", "permanent"} =>
            (rt.status = "retryable" <=> (marked \/ transient))

\* a plain HTTP 500 is classified retryable (and a plain 404 would not be)
ClassificationWitness ==
    /\ rt.status = "retryable"
    /\ rt.lastError = Err("", "", 500)

\* C8 (retry bound): an operation that fails with a retryable error every
\* time is invoked exactly maxRetries + 1 times, never more, and retry() then
\* throws the error of the last invocation.
RetryBound ==
    /\ rt.invocations <= rt.opts.maxRetries + 1
    /\ (Len(rt.failed) = rt.invocations /\ AllRetryable) =>
          /\ rt.status = "thrown" <=> rt.invocations = rt.opts.maxRetries + 1
          /\ rt.status = "thrown" =>
                rt.thrownError = rt.failed[rt.opts.maxRetries + 1]

\* three invocations, all failed with retryable errors, for maxRetries = 2
RetryBoundWitness ==
    /\ rt.opts.maxRetries = 2
    /\ rt.opts.retryCondition = "isRetryableError"
    /\ rt.status = "thrown"
    /\ rt.invocations = 3
    /\ Len(rt.failed) = 3
    /\ AllRetryable

\* C15 (permanent errors are never retried): when an invocation fails with
\* an error the retry condition isRetryableError rejects, at any attempt,
\* retry() makes no further invocation, inserts no wait and throws that error.
PermanentNeverRetried ==
    \A k \in 1..Len(rt.failed) :
        (/\ rt.opts.retryCondition = "isRetryableError"
         /\ ~isRetryableError(rt.failed[k]))
            => /\ k = Len(rt.failed)
               /\ rt.invocations = k
               /\ Len(rt.waits) = k - 1
               /\ rt.status = "thrown"
               /\ rt.thrownError = rt.failed[k]

\* a permanent error at the second attempt, after a retryable one
PermanentNeverRetriedWitness ==
    /\ rt.opts.retryCondition = "isRetryableError"
    /\ rt.opts.maxRetries >= 2
    /\ Len(rt.failed) = 2
    /\ isRetryableError(rt.failed[1])
    /\ ~isRetryableError(rt.failed[2])
    /\ rt.status = "thrown"

\* C9 (backoff growth): the k-th wait follows failed attempt k - 1 and lasts
\* delay * 2^(k-1) (exponential) or delay * k (linear); there is one wait per
\* failed attempt that is followed by another attempt, and no other.
BackoffGrowth ==
    /\ \A k \in 1..Len(rt.waits) :
          rt.waits[k] = IF rt.opts.backoff = "exponential"
                        THEN rt.opts.delay * 2^(k - 1)
                        ELSE rt.opts.delay * k
    /\ Len(rt.waits) = IF rt.status \in {"returned", "thrown"}
                       THEN rt.invocations - 1
                       ELSE rt.invocations
    /\ Len(rt.waits) <= rt.opts.maxRetries

BackoffGrowthWitness ==
    /\ rt.opts.backoff = "exponential"
    /\ rt.opts.delay = 500
    /\ rt.waits = <<500, 1000, 2000>>

\* C39 (success ends the loop): retry() returns the value of the first
\* invocation that resolves and invokes the operation no more; after k
\* failures, all retryable and k <= maxRetries, followed by a success, the
\* operation has been invoked k + 1 times, k waits have been inserted and no
\* error is thrown.
ReturnsFirstSuccess ==
    rt.status = "returned" =>
        LET k == Len(rt.failed)
        IN  /\ k <= rt.opts.maxRetries
            /\ AllRetryable
            /\ rt.invocations = k + 1
            /\ Len(rt.waits) = k
            /\ Len(rt.resolved) = 1
            /\ rt.result = rt.resolved[1]
            /\ rt.thrownError = NoError

\* a success at the last attempt allowed: two retryable failures, then the
\* value, for maxRetries = 2
ReturnsFirstSuccessWitness ==
    /\ rt.status = "returned"
    /\ rt.opts.maxRetries = 2
    /\ rt.opts.retryCondition = "isRetryableError"
    /\ Len(rt.failed) = 2
    /\ rt.invocations = 3
    /\ rt.result = "rows"

(***************************************************************************)
(* utils/recurrence.ts: one call of generateRecurringDates, an iteration    *)
(* of its loop per step, or one call of getNextOccurrence.                  *)
(***************************************************************************)
maxIterations == 365
MaxCount == 3

RecurrenceTypes == {"none", "daily", "weekly", "monthly"}
StartDates ==
    {DateString(2025, 1, 1), DateString(2024, 1, 31), DateString(2025, 5, 10),
     DateString(2025, 12, 31)}
\* the end dates a caller can pass with a start date: none, or a date some
\* days before, on or after it
EndOffsets == {0 - 1, 0, 1, 14, 31}
EndDates(start) == {NoDate} \cup {formatDate(NewDate(start) + k) : k \in EndOffsets}
\* count: undefined (0 is as falsy), small, or beyond the safety limit
Counts == (0..MaxCount) \cup {maxIterations + 1, maxIterations + 2}

\* mutant: a weekly recurrence does not move
advanceStalled(recurrence, current) ==
    CASE recurrence = "daily" -> setDate(current, getDate(current) + 1)
      [] recurrence = "weekly" -> setDate(current, getDate(current))
      [] recurrence = "monthly" -> setMonth(current, getMonth(current) + 1)
      [] OTHER -> current

\* the switch on the recurrence
advance(recurrence, current) ==
    CASE recurrence = "daily" -> setDate(current, getDate(current) + 1)
      [] recurrence = "weekly" -> setDate(current, getDate(current) + 7)
      [] recurrence = "monthly" -> setMonth(current, getMonth(current) + 1)
      [] OTHER -> current

\* mutant: the count is compared after the push it should prevent
loopStepCountLate(endDate, count, current, dates) ==
    IF endDate # NoDate /\ current > NewDate(endDate) THEN "break"
    ELSE IF count # 0 /\ Len(dates) > count THEN "break"
    ELSE "push"

\* mutant: the end date is an exclusive boundary
loopStepEndExclusive(endDate, count, current, dates) ==
    IF endDate # NoDate /\ current >= NewDate(endDate) THEN "break"
    ELSE IF count # 0 /\ Len(dates) >= count THEN "break"
    ELSE "push"

\* the two checks of the loop body, after `current` has moved
loopStep(endDate, count, current, dates) ==
    IF endDate # NoDate /\ current > NewDate(endDate) THEN "break"
    ELSE IF count # 0 /\ Len(dates) >= count THEN "break"
    ELSE "push"

getNextOccurrence(date, recurrence) ==
    IF recurrence = "none" THEN NoDate
    ELSE formatDate(advance(recurrence, NewDate(date)))

RecurrenceInit ==
    /\ EngineInit
    /\ variant = "timeBlocks"
    /\ rt = IdleRetry
    /\ \E start \in StartDates, recurrence \in RecurrenceTypes :
        \/ \E endDate \in EndDates(start), count \in Counts :
              gen = [IdleGen EXCEPT !.fn = "generateRecurringDates",
                                    !.startDate = start,
                                    !.recurrence = recurrence,
                                    !.endDate = endDate,
                                    !.count = count,
                                    !.status = "called"]
        \/ gen = [IdleGen EXCEPT !.fn = "getNextOccurrence",
                                 !.startDate = start,
                                 !.recurrence = recurrence,
                                 !.status = "called"]

recurrenceVars ==
    <<variant, listVars, loading, fetch, calls, ncalls, nevents, now, everSeen,
      ev, rt, user, staleFetch, pending, origin, channels, schedule>>

\* the statements before the loop, and the early return for 'none'
GenerateStart ==
    /\ gen.fn = "generateRecurringDates"
    /\ gen.status = "called"
    /\ gen' = [gen EXCEPT !.dates = <<gen.startDate>>,
                          !.current = NewDate(gen.startDate),
                          !.status = IF gen.recurrence = "none" THEN "returned"
                                     ELSE "running"]
    /\ UNCHANGED recurrenceVars

\* one iteration of the while loop
GenerateLoop ==
    /\ gen.status = "running"
    /\ gen.iterations < maxIterations
    /\ LET current == advance(gen.recurrence, gen.current)
           moved == [gen EXCEPT !.iterations = @ + 1, !.current = current]
       IN  gen' = IF loopStep(gen.endDate, gen.count, current, gen.dates) = "break"
                  THEN [moved EXCEPT !.status = "returned"]
                  ELSE [moved EXCEPT !.dates = Append(@, formatDate(current))]
    /\ UNCHANGED recurrenceVars

\* the loop condition fails
GenerateExit ==
    /\ gen.status = "running"
    /\ gen.iterations >= maxIterations
    /\ gen' = [gen EXCEPT !.status = "returned"]
    /\ UNCHANGED recurrenceVars

GetNextOccurrence ==
    /\ gen.fn = "getNextOccurrence"
    /\ gen.status = "called"
    /\ gen' = [gen EXCEPT !.next = getNextOccurrence(gen.startDate,
                                                     gen.recurrence),
                          !.status = "returned"]
    /\ UNCHANGED recurrenceVars

NextRecurrence ==
    \/ GenerateStart
    \/ GenerateLoop
    \/ GenerateExit
    \/ GetNextOccurrence

SpecRecurrence == RecurrenceInit /\ [][NextRecurrence]_vars

(***************************************************************************)
(* Properties of the recurrence utilities                                  *)
(***************************************************************************)
Generated == gen.fn = "generateRecurringDates" /\ gen.status = "returned"

\* C22 (recurrences by count): generateRecurringDates with a count n >= 1
\* and no end date, daily or weekly, returns exactly min(n, 366) dates: the
\* start date first, each following date one period (1 day, 7 days) after
\* the one before it.
RecurringDatesByCount ==
    (/\ Generated
     /\ gen.count >= 1
     /\ gen.endDate = NoDate
     /\ gen.recurrence \in {"daily", "weekly"})
        => /\ Len(gen.dates) = IF gen.count < 366 THEN gen.count ELSE 366
           /\ gen.dates[1] = gen.startDate
           /\ \A k \in 1..(Len(gen.dates) - 1) :
                 NewDate(gen.dates[k + 1]) =
                     NewDate(gen.dates[k])
                         + (IF gen.recurrence = "daily" THEN 1 ELSE 7)

\* a count beyond the safety limit: 366 weekly dates
RecurringDatesByCountWitness ==
    /\ Generated
    /\ gen.recurrence = "weekly"
    /\ gen.endDate = NoDate
    /\ gen.count = 367
    /\ Len(gen.dates) = 366

\* C23 (end date), as stated: with an end date no returned date is later
\* than the end date, an occurrence that falls on the end date is included,
\* and at most 365 occurrences are added.
RecurringDatesWithinEnd ==
    (gen.fn = "generateRecurringDates" /\ gen.endDate # NoDate) =>
        /\ \A k \in 1..Len(gen.dates) :
              NewDate(gen.dates[k]) <= NewDate(gen.endDate)
        /\ (gen.iterations > 0 /\ gen.current = NewDate(gen.endDate))
              => gen.dates[Len(gen.dates)] = gen.endDate
        /\ Len(gen.dates) <= 366

\* C23 (end date), amended: the start date is returned first whatever the
\* end date, and no date after the first is later than the end date; an
\* occurrence that falls on the end date is included unless the count is
\* reached before it; at most 365 occurrences are added.
RecurringDatesWithinEndAfterStart ==
    (gen.fn = "generateRecurringDates" /\ gen.endDate # NoDate) =>
        /\ \A k \in 2..Len(gen.dates) :
              NewDate(gen.dates[k]) <= NewDate(gen.endDate)
        /\ Len(gen.dates) >= 1 => gen.dates[1] = gen.startDate
        /\ (gen.iterations > 0 /\ gen.current = NewDate(gen.endDate))
              => \/ gen.dates[Len(gen.dates)] = gen.endDate
                 \/ gen.count # 0 /\ Len(gen.dates) >= gen.count
        /\ Len(gen.dates) <= 366

\* the weekly run that ends on its end date, two weeks after the start
RecurringDatesWithinEndWitness ==
    /\ Generated
    /\ gen.recurrence = "weekly"
    /\ gen.startDate = DateString(2025, 1, 1)
    /\ gen.endDate = DateString(2025, 1, 15)
    /\ gen.dates = <<DateString(2025, 1, 1), DateString(2025, 1, 8),
                     DateString(2025, 1, 15)>>

====
